---- MODULE Spec2Model ----
(***************************************************************************)
(* The GObject subclass bridge of src/subclass/object.rs: the class        *)
(* extension operations (override_vfuncs, install_properties, add_signal,  *)
(* add_signal_with_accumulator, add_action_signal), the three vtable       *)
(* trampolines (get_property, set_property, constructed), the chain-up     *)
(* parent_constructed and the accumulator trampoline.                      *)
(*                                                                         *)
(* The foreign runtime (type registration, reference counting, the value   *)
(* slot, signal emission) and the floating-reference guard are not part of *)
(* object.rs; they appear here only as far as the bridge calls them or is  *)
(* called by them.                                                         *)
(***************************************************************************)
EXTENDS Integers, Sequences, FiniteSets, TLC

VARIABLES
    phase,       \* class lifetime of each registered subclass
    klass,       \* the GObjectClass vtable slots of every class (0 is the root)
    typeData,    \* TypeData of each subclass: the parent class pointer
    installLog,  \* the calls made to g_object_class_install_properties
    signals,     \* the calls made to g_signal_newv
    lastOp,      \* the last class extension operation that was called
    obj,         \* the one foreign object instance
    stack,       \* the call stack of vtable handlers running on obj
    proc,        \* "running", "aborted", or "unwound" (a panic left a trampoline)
    slot,        \* payload held by the foreign GValue output slot
    rel,         \* how often each payload has been released
    vLive,       \* the Value returned by the implementation still has its destructor armed
    diag,        \* diagnostics printed during the current property call
    em           \* the signal emission in progress

vars == <<phase, klass, typeData, installLog, signals, lastOp, obj, stack,
          proc, slot, rel, vLive, diag, em>>

classVars == <<phase, klass, typeData, installLog, signals, lastOp>>
runVars == <<obj, stack, proc, slot, rel, vLive, diag>>

----
(* Bounds *)

Depth == 2              \* registered subclass levels below the root class
MaxProps == 2           \* longest property sequence given to install_properties
MaxRegistrations == 1   \* install_properties and signal registrations explored
MaxHandlers == 2        \* handlers connected to a signal in one emission

Classes == 1..Depth
AllClasses == 0..Depth

----
(* The class struct *)

NullSlot == [fn |-> "null", T |-> 0]
RootSlot == [fn |-> "root", T |-> 0]
Trampoline(name, T) == [fn |-> name, T |-> T]

NullClass == [set_property |-> NullSlot, get_property |-> NullSlot,
              constructed |-> NullSlot]

NullTypeData == [parent_class |-> -1]

NoOp == [op |-> "none", klass |-> 0, n |-> 0]

Registrations == Len(installLog) + Len(signals)

(* Calls are synchronous on one thread: nothing starts while a handler runs *)
Idle == proc = "running" /\ stack = <<>> /\ em.pc = "idle"
InClassInit == \E c \in Classes : phase[c] = "ClassInit"

(* A Property and the GParamSpec its conversion creates. *)
Property(k) == [name |-> k]
IntoParamSpec(property) == [pspec |-> property.name]
NullPspec == [pspec |-> 0]

Properties(n) == [k \in 1..n |-> Property(k)]

----
(* Type registration: the class struct of a new type starts as a copy of   *)
(* its parent's, TypeData records the parent class, and class_init runs.   *)

ClassInitBegin(c) ==
    /\ Idle
    /\ phase[c] = "Unregistered"
    /\ phase[c - 1] = "Active"
    /\ phase' = [phase EXCEPT ![c] = "ClassInit"]
    /\ klass' = [klass EXCEPT ![c] = klass[c - 1]]
    /\ typeData' = [typeData EXCEPT ![c] = [parent_class |-> c - 1]]
    /\ lastOp' = [op |-> "class_init", klass |-> c, n |-> 0]
    /\ UNCHANGED <<installLog, signals, runVars, em>>

ClassInitEnd(c) ==
    /\ Idle
    /\ phase[c] = "ClassInit"
    /\ phase' = [phase EXCEPT ![c] = "Active"]
    /\ lastOp' = [op |-> "active", klass |-> c, n |-> 0]
    /\ UNCHANGED <<klass, typeData, installLog, signals, runVars, em>>

----
(* IsSubclassable::override_vfuncs *)

override_vfuncs_any_phase(c) ==
    /\ proc = "running" /\ stack = <<>> /\ em.pc = "idle"
    /\ phase[c] # "Unregistered"
    /\ klass' = [klass EXCEPT ![c] =
                    [set_property |-> Trampoline("set_property", c),
                     get_property |-> Trampoline("get_property", c),
                     constructed |-> Trampoline("constructed", c)]]
    /\ lastOp' = [op |-> "override_vfuncs", klass |-> c, n |-> 0]
    /\ UNCHANGED <<phase, typeData, installLog, signals, runVars, em>>

override_vfuncs(c) ==
    /\ Idle
    /\ phase[c] = "ClassInit"
    /\ klass' = [klass EXCEPT ![c] =
                    [set_property |-> Trampoline("set_property", c),
                     get_property |-> Trampoline("get_property", c),
                     constructed |-> Trampoline("constructed", c)]]
    /\ lastOp' = [op |-> "override_vfuncs", klass |-> c, n |-> 0]
    /\ UNCHANGED <<phase, typeData, installLog, signals, runVars, em>>

----
(* ObjectClassSubclassExt::install_properties *)

RECURSIVE PushAll(_, _)
PushAll(pspecs, properties) ==
    IF properties = <<>> THEN pspecs
    ELSE PushAll(Append(pspecs, IntoParamSpec(Head(properties))), Tail(properties))

PspecArray(properties) == PushAll(<<NullPspec>>, properties)

InstallCall(c, pspecs) ==
    [klass |-> c, n_pspecs |-> Len(pspecs), pspecs |-> pspecs]

install_properties_always_registers(c, properties) ==
    /\ Idle
    /\ phase[c] = "ClassInit"
    /\ Registrations < MaxRegistrations
    /\ installLog' = Append(installLog, InstallCall(c, PspecArray(properties)))
    /\ lastOp' = [op |-> "install_properties", klass |-> c, n |-> Len(properties)]
    /\ UNCHANGED <<phase, klass, typeData, signals, runVars, em>>

install_properties_no_null_slot(c, properties) ==
    /\ Idle
    /\ phase[c] = "ClassInit"
    /\ lastOp' = [op |-> "install_properties", klass |-> c, n |-> Len(properties)]
    /\ IF properties = <<>>
       THEN UNCHANGED installLog
       ELSE /\ Registrations < MaxRegistrations
            /\ installLog' = Append(installLog,
                                InstallCall(c, PushAll(<<>>, properties)))
    /\ UNCHANGED <<phase, klass, typeData, signals, runVars, em>>

install_properties(c, properties) ==
    /\ Idle
    /\ phase[c] = "ClassInit"
    /\ lastOp' = [op |-> "install_properties", klass |-> c, n |-> Len(properties)]
    /\ IF properties = <<>>
       THEN UNCHANGED installLog
       ELSE /\ Registrations < MaxRegistrations
            /\ installLog' = Append(installLog,
                                InstallCall(c, PspecArray(properties)))
    /\ UNCHANGED <<phase, klass, typeData, signals, runVars, em>>

----
(* Signal registration: add_signal, add_signal_with_accumulator and        *)
(* add_action_signal each make one g_signal_newv call.                     *)

SignalNames == {"sig"}
ArgTypeLists == {<<"int">>}
Predicates == {"first_wins", "until_true"}

ToGlibType(t) == [gtype |-> t]
ToGlibTypes(arg_types) == [i \in 1..Len(arg_types) |-> ToGlibType(arg_types[i])]

NullPtr == [ptr |-> "null"]
NoAccumulator == [fn |-> "none"]
AccumulatorTrampolineFn == [fn |-> "accumulator_trampoline"]

(* Box::new(Box::new(accumulator)) leaked with Box::into_raw *)
BoxIntoRaw(accumulator) == [ptr |-> "box", closure |-> accumulator]
(* Closure::new(handler) *)
ClosureNew(handler) == [ptr |-> "closure", closure |-> handler]

g_signal_newv(name, itype, flags, class_closure, accumulator, accu_data, return_type, n_params, param_types) ==
    /\ Registrations < MaxRegistrations
    /\ signals' = Append(signals,
            [name |-> name, itype |-> itype, flags |-> flags,
             class_closure |-> class_closure, accumulator |-> accumulator,
             accu_data |-> accu_data, return_type |-> return_type,
             n_params |-> n_params, param_types |-> param_types])

add_signal(c, name, arg_types, ret_type) ==
    /\ Idle
    /\ phase[c] = "ClassInit"
    /\ g_signal_newv(name, c, {"RUN_LAST"}, NullPtr, NoAccumulator, NullPtr,
                     ToGlibType(ret_type), Len(arg_types),
                     ToGlibTypes(arg_types))
    /\ lastOp' = [op |-> "add_signal", klass |-> c, n |-> Len(arg_types)]
    /\ UNCHANGED <<phase, klass, typeData, installLog, runVars, em>>

add_signal_with_accumulator(c, name, arg_types, ret_type, accumulator) ==
    /\ Idle
    /\ phase[c] = "ClassInit"
    /\ g_signal_newv(name, c, {"RUN_LAST"}, NullPtr, AccumulatorTrampolineFn,
                     BoxIntoRaw(accumulator),
                     ToGlibType(ret_type), Len(arg_types),
                     ToGlibTypes(arg_types))
    /\ lastOp' = [op |-> "add_signal_with_accumulator", klass |-> c,
                  n |-> Len(arg_types)]
    /\ UNCHANGED <<phase, klass, typeData, installLog, runVars, em>>

add_action_signal(c, name, arg_types, ret_type, handler) ==
    /\ Idle
    /\ phase[c] = "ClassInit"
    /\ g_signal_newv(name, c, {"RUN_LAST", "ACTION"}, ClosureNew(handler),
                     NoAccumulator, NullPtr,
                     ToGlibType(ret_type), Len(arg_types),
                     ToGlibTypes(arg_types))
    /\ lastOp' = [op |-> "add_action_signal", klass |-> c, n |-> Len(arg_types)]
    /\ UNCHANGED <<phase, klass, typeData, installLog, runVars, em>>

----
(* Initial state: only the root class exists.  Its constructed slot may or *)
(* may not hold a handler.                                                 *)

NoObject == [state |-> "none", type |-> 0, refcount |-> 0, floating |-> FALSE,
             released |-> 0, weak |-> "none", guards |-> 0, chained |-> FALSE]
NoEmission == [pc |-> "idle", sig |-> 0, k |-> 0, i |-> 0, accu |-> FALSE,
               hr |-> FALSE, log |-> <<>>, predCalls |-> 0]

Init ==
    /\ phase = [c \in AllClasses |-> IF c = 0 THEN "Active" ELSE "Unregistered"]
    /\ \E rc \in {NullSlot, RootSlot} :
          klass = [c \in AllClasses |->
                     IF c = 0
                     THEN [set_property |-> RootSlot, get_property |-> RootSlot,
                           constructed |-> rc]
                     ELSE NullClass]
    /\ typeData = [c \in Classes |-> NullTypeData]
    /\ installLog = <<>>
    /\ signals = <<>>
    /\ lastOp = NoOp
    /\ obj = NoObject
    /\ stack = <<>>
    /\ proc = "running"
    /\ slot = "empty"
    /\ rel = [p \in {"old", "new"} |-> 0]
    /\ vLive = FALSE
    /\ diag = 0
    /\ em = NoEmission

----
(* Class initialisation alone: every order of the class extension          *)
(* operations inside class_init.                                           *)

TypeRegistration ==
    \E c \in Classes : ClassInitBegin(c) \/ ClassInitEnd(c)

InstallStep ==
    \E c \in Classes : \E n \in 0..MaxProps : install_properties(c, Properties(n))

SignalStep ==
    \E c \in Classes : \E name \in SignalNames : \E arg_types \in ArgTypeLists :
        \/ add_signal(c, name, arg_types, "bool")
        \/ \E accumulator \in Predicates :
              add_signal_with_accumulator(c, name, arg_types, "bool", accumulator)
        \/ add_action_signal(c, name, arg_types, "bool", "handler")

OverrideStep == \E c \in Classes : override_vfuncs(c)

ClassNext ==
    \/ TypeRegistration
    \/ OverrideStep
    \/ InstallStep
    \/ SignalStep

SpecClass == Init /\ [][ClassNext]_vars

----
(* The foreign runtime's reference counting, as the bridge relies on it.   *)

g_object_ref_sink(o) ==
    IF o.floating THEN [o EXCEPT !.floating = FALSE]
    ELSE [o EXCEPT !.refcount = @ + 1]

(* Releasing the last reference finalizes the object and clears its weak   *)
(* references; a release of an already finalized object is a second free.  *)
g_object_unref(o) ==
    IF o.refcount <= 1
    THEN [o EXCEPT !.refcount = 0,
                   !.released = IF @ < 2 THEN @ + 1 ELSE @,
                   !.weak = IF @ = "live" THEN "cleared" ELSE @]
    ELSE [o EXCEPT !.refcount = @ - 1]

g_object_force_floating(o) == [o EXCEPT !.floating = TRUE]

(* glib_floating_reference_guard!: claims a floating reference for the     *)
(* scope and gives it back when the scope ends.                            *)
GuardNew(o) ==
    [o |-> [(IF o.floating THEN g_object_ref_sink(o) ELSE o)
                EXCEPT !.guards = @ + 1],
     sunk |-> o.floating]

GuardDrop(o, sunk) ==
    [(IF sunk THEN g_object_force_floating(o) ELSE o) EXCEPT !.guards = @ - 1]

(* from_glib_borrow: the handle holds a reference while it lives.          *)
HandleNew(o) == g_object_ref_sink(o)
HandleDrop(o) == g_object_unref(o)

----
(* Stack frames of the vtable handlers *)

NoPspec == [pspec |-> -1]

NewFrame(slotv, owner, id, pspec) ==
    [fn |-> slotv.fn, T |-> slotv.T, owner |-> owner, pc |-> "entry",
     guard |-> FALSE, sunk |-> FALSE, handle |-> FALSE, imp |-> 0,
     id |-> id, idx |-> -1, pspec |-> pspec,
     chained |-> 0, invoked |-> 0, res |-> "none",
     rc0 |-> obj.refcount, fl0 |-> obj.floating]

Top == stack[Len(stack)]
SetTop(f) == [stack EXCEPT ![Len(stack)] = f]
Pop == SubSeq(stack, 1, Len(stack) - 1)
Running == proc = "running" /\ stack # <<>>
IsTrampoline(f) == f.fn \in {"get_property", "set_property", "constructed"}
At(fns, pcs) == Running /\ Top.fn \in fns /\ Top.pc \in pcs

(* u32 subtraction id - 1: 0 - 1 wraps (written -1 here) *)
U32Sub1(id) == IF id = 0 THEN -1 ELSE id - 1

----
(* The three trampolines, statement by statement *)

(* glib_floating_reference_guard!(obj) *)
TakeGuard_skipped ==
    /\ At({"get_property", "set_property", "constructed"}, {"entry"})
    /\ stack' = SetTop([Top EXCEPT !.pc = "guarded"])
    /\ UNCHANGED <<classVars, obj, proc, slot, rel, vLive, diag, em>>

TakeGuard ==
    /\ At({"get_property", "set_property", "constructed"}, {"entry"})
    /\ LET g == GuardNew(obj) IN
        /\ obj' = g.o
        /\ stack' = SetTop([Top EXCEPT !.pc = "guarded", !.guard = TRUE,
                                       !.sunk = g.sunk])
    /\ UNCHANGED <<classVars, proc, slot, rel, vLive, diag, em>>

(* let instance = &*(obj as *mut T::Instance); let imp = instance.get_impl(); *)
RecoverImpl ==
    /\ At({"get_property", "set_property", "constructed"}, {"guarded"})
    /\ stack' = SetTop([Top EXCEPT !.pc = "recovered", !.imp = Top.T])
    /\ UNCHANGED <<classVars, obj, proc, slot, rel, vLive, diag, em>>

(* imp.method(&from_glib_borrow(obj), id - 1, ...): the arguments are      *)
(* evaluated and the trait method is entered.                              *)
TraitIndex_unshifted(f) == IF f.fn = "constructed" THEN -1 ELSE f.id

TraitIndex(f) == IF f.fn = "constructed" THEN -1 ELSE U32Sub1(f.id)

Dispatch ==
    /\ At({"get_property", "set_property", "constructed"}, {"recovered"})
    /\ obj' = HandleNew(obj)
    /\ stack' = SetTop([Top EXCEPT !.pc = "in_impl", !.handle = TRUE,
                                   !.idx = TraitIndex(Top)])
    /\ UNCHANGED <<classVars, proc, slot, rel, vLive, diag, em>>

----
(* ObjectImpl: what an implementation's method body may do *)

(* set_property returns; constructed returns *)
ImplReturn ==
    /\ At({"set_property", "constructed"}, {"in_impl"})
    /\ stack' = SetTop([Top EXCEPT !.pc = "arm_done"])
    /\ UNCHANGED <<classVars, obj, proc, slot, rel, vLive, diag, em>>

(* get_property returns Ok(v): v is a new Value owning payload "new" *)
ImplGetOk ==
    /\ At({"get_property"}, {"in_impl"})
    /\ stack' = SetTop([Top EXCEPT !.pc = "ok", !.res = "Ok"])
    /\ vLive' = TRUE
    /\ UNCHANGED <<classVars, obj, proc, slot, rel, diag, em>>

(* get_property returns Err(()) *)
ImplGetErr ==
    /\ At({"get_property"}, {"in_impl"})
    /\ stack' = SetTop([Top EXCEPT !.pc = "err", !.res = "Err"])
    /\ UNCHANGED <<classVars, obj, proc, slot, rel, vLive, diag, em>>

(* The body panics: unimplemented!() in the default set_property and       *)
(* get_property, or any panic of an override.  The trampolines are         *)
(* extern "C" functions without catch_unwind, so the panic either aborts   *)
(* the process inside the call or, unwinding across the foreign frames     *)
(* (undefined behaviour), leaves the trampoline after running the          *)
(* destructors of the handle and the guard.                                *)
ImplPanic(outcome) ==
    /\ At({"get_property", "set_property", "constructed"}, {"in_impl"})
    /\ IF outcome = "abort"
       THEN /\ proc' = "aborted"
            /\ stack' = SetTop([Top EXCEPT !.res = "panic"])
            /\ UNCHANGED obj
       ELSE /\ proc' = "unwound"
            /\ obj' = GuardDrop(HandleDrop(obj), Top.sunk)
            /\ stack' = Pop
    /\ UNCHANGED <<classVars, slot, rel, vLive, diag, em>>

(* ObjectImpl::parent_constructed, called from a constructed body *)
ParentSlot_own_class(T) == klass[T].constructed

ParentSlot(T) == klass[typeData[T].parent_class].constructed

parent_constructed ==
    /\ At({"constructed"}, {"in_impl"})
    /\ Top.chained = 0
    /\ LET func == ParentSlot(Top.imp)
           caller == [Top EXCEPT !.chained = @ + 1,
                                 !.invoked = IF func.fn = "null" THEN @ ELSE @ + 1]
       IN stack' = IF func.fn = "null"
                   THEN SetTop(caller)
                   ELSE Append(SetTop(caller), NewFrame(func, 0, 0, NoPspec))
    /\ obj' = [obj EXCEPT !.chained = TRUE]
    /\ UNCHANGED <<classVars, proc, slot, rel, vLive, diag, em>>

(* The root class's own constructed handler *)
RootConstructed ==
    /\ At({"root"}, {"entry"})
    /\ stack' = Pop
    /\ UNCHANGED <<classVars, obj, proc, slot, rel, vLive, diag, em>>

----
(* get_property: the two match arms *)

(* gobject_ffi::g_value_unset(value) *)
ValueUnset ==
    /\ At({"get_property"}, {"ok"})
    /\ rel' = IF slot = "empty" THEN rel ELSE [rel EXCEPT ![slot] = @ + 1]
    /\ slot' = "empty"
    /\ stack' = SetTop([Top EXCEPT !.pc = "unset"])
    /\ UNCHANGED <<classVars, obj, proc, vLive, diag, em>>

(* ptr::write(value, ptr::read(v.to_glib_none().0)) *)
PtrWrite ==
    /\ At({"get_property"}, {"unset"})
    /\ slot' = "new"
    /\ stack' = SetTop([Top EXCEPT !.pc = "written"])
    /\ UNCHANGED <<classVars, obj, proc, rel, vLive, diag, em>>

(* mem::forget(v) *)
MemForget_dropped ==
    /\ At({"get_property"}, {"written"})
    /\ vLive' = FALSE
    /\ rel' = [rel EXCEPT !["new"] = @ + 1]
    /\ stack' = SetTop([Top EXCEPT !.pc = "arm_done"])
    /\ UNCHANGED <<classVars, obj, proc, slot, diag, em>>

MemForget ==
    /\ At({"get_property"}, {"written"})
    /\ vLive' = FALSE
    /\ stack' = SetTop([Top EXCEPT !.pc = "arm_done"])
    /\ UNCHANGED <<classVars, obj, proc, slot, rel, diag, em>>

(* Err(()) => eprintln!("Failed to get property") *)
Eprintln_clears_slot ==
    /\ At({"get_property"}, {"err"})
    /\ diag' = diag + 1
    /\ rel' = IF slot = "empty" THEN rel ELSE [rel EXCEPT ![slot] = @ + 1]
    /\ slot' = "empty"
    /\ stack' = SetTop([Top EXCEPT !.pc = "arm_done"])
    /\ UNCHANGED <<classVars, obj, proc, vLive, em>>

Eprintln ==
    /\ At({"get_property"}, {"err"})
    /\ diag' = diag + 1
    /\ stack' = SetTop([Top EXCEPT !.pc = "arm_done"])
    /\ UNCHANGED <<classVars, obj, proc, slot, rel, vLive, em>>

----
(* Scope exit of a trampoline: the borrowed handle is dropped, then the    *)
(* guard, then control returns to the foreign caller.                      *)

DropHandle ==
    /\ At({"get_property", "set_property", "constructed"}, {"arm_done"})
    /\ obj' = HandleDrop(obj)
    /\ stack' = SetTop([Top EXCEPT !.pc = "handle_dropped", !.handle = FALSE])
    /\ UNCHANGED <<classVars, proc, slot, rel, vLive, diag, em>>

DropGuard_leaked_on_err ==
    /\ At({"get_property", "set_property", "constructed"}, {"handle_dropped"})
    /\ IF Top.res = "Err"
       THEN /\ stack' = SetTop([Top EXCEPT !.pc = "ret", !.guard = FALSE])
            /\ UNCHANGED obj
       ELSE /\ obj' = GuardDrop(obj, Top.sunk)
            /\ stack' = SetTop([Top EXCEPT !.pc = "ret", !.guard = FALSE])
    /\ UNCHANGED <<classVars, proc, slot, rel, vLive, diag, em>>

DropGuard ==
    /\ At({"get_property", "set_property", "constructed"}, {"handle_dropped"})
    /\ obj' = GuardDrop(obj, Top.sunk)
    /\ stack' = SetTop([Top EXCEPT !.pc = "ret", !.guard = FALSE])
    /\ UNCHANGED <<classVars, proc, slot, rel, vLive, diag, em>>

Return ==
    /\ At({"get_property", "set_property", "constructed"}, {"ret"})
    /\ stack' = Pop
    /\ UNCHANGED <<classVars, obj, proc, slot, rel, vLive, diag, em>>

----
(* The foreign runtime calling into the bridge *)

(* g_object_class_install_properties gives the descriptor at array index i *)
(* (i >= 1) the property id i on the class it is installed on.             *)
Pool ==
    UNION { { [owner |-> installLog[j].klass, param_id |-> i,
               pspec |-> installLog[j].pspecs[i + 1]] :
              i \in 1..(installLog[j].n_pspecs - 1) } :
            j \in 1..Len(installLog) }

PropertiesOf(type) == { e \in Pool : e.owner <= type }

FreshSlot ==
    /\ slot' = "old"
    /\ rel' = [p \in {"old", "new"} |-> 0]
    /\ vLive' = FALSE
    /\ diag' = 0

(* g_object_new: allocates the instance and calls the class's constructed  *)
ObjectNew(c, floating) ==
    /\ Idle /\ ~InClassInit
    /\ phase[c] = "Active"
    /\ obj.state \in {"none", "dropped"}
    /\ obj' = [state |-> "constructing", type |-> c, refcount |-> 1,
               floating |-> floating, released |-> 0, weak |-> "none",
               guards |-> 0, chained |-> FALSE]
    /\ stack' = IF klass[c].constructed.fn = "null" THEN <<>>
                ELSE <<[NewFrame(klass[c].constructed, 0, 0, NoPspec)
                           EXCEPT !.rc0 = 1, !.fl0 = floating]>>
    /\ UNCHANGED <<classVars, proc, slot, rel, vLive, diag, em>>

(* Object::new returns the owning reference *)
ObjectNewReturn ==
    /\ Idle
    /\ obj.state = "constructing"
    /\ obj' = [(IF obj.floating THEN g_object_ref_sink(obj) ELSE obj)
                  EXCEPT !.state = "new"]
    /\ UNCHANGED <<classVars, stack, proc, slot, rel, vLive, diag, em>>

(* obj.downgrade(): the owner keeps a weak reference beside the strong one *)
Downgrade ==
    /\ Idle
    /\ obj.state = "new"
    /\ obj' = [obj EXCEPT !.weak = "live", !.state = "alive"]
    /\ UNCHANGED <<classVars, stack, proc, slot, rel, vLive, diag, em>>

(* drop(obj) *)
DropObject ==
    /\ Idle
    /\ obj.state = "alive"
    /\ obj' = [g_object_unref(obj) EXCEPT !.state = "dropped"]
    /\ UNCHANGED <<classVars, stack, proc, slot, rel, vLive, diag, em>>

(* g_object_get_property / g_object_set_property: the owner class's slot   *)
(* is called with the property's id.                                       *)
PropertyCall(which, e) ==
    /\ Idle /\ ~InClassInit
    /\ obj.state = "alive"
    /\ e \in PropertiesOf(obj.type)
    /\ klass[e.owner][which].fn = which
    /\ stack' = <<NewFrame(klass[e.owner][which], e.owner, e.param_id, e.pspec)>>
    /\ FreshSlot
    /\ UNCHANGED <<classVars, obj, proc, em>>

GetPropertyCall == \E e \in Pool : PropertyCall("get_property", e)
SetPropertyCall == \E e \in Pool : PropertyCall("set_property", e)

----
(* The bridge at run time: class initialisation without signals (each      *)
(* class installs its properties at most once), object construction,       *)
(* property access and release.                                            *)

InstallOnce ==
    \E c \in Classes : \E n \in 0..MaxProps :
        /\ \A j \in 1..Len(installLog) : installLog[j].klass # c
        /\ install_properties(c, Properties(n))

Next ==
    \/ TypeRegistration
    \/ OverrideStep
    \/ InstallOnce
    \/ \E c \in Classes : \E floating \in BOOLEAN : ObjectNew(c, floating)
    \/ ObjectNewReturn
    \/ Downgrade
    \/ DropObject
    \/ GetPropertyCall
    \/ SetPropertyCall
    \/ TakeGuard
    \/ RecoverImpl
    \/ Dispatch
    \/ ImplReturn
    \/ ImplGetOk
    \/ ImplGetErr
    \/ \E outcome \in {"abort", "unwind"} : ImplPanic(outcome)
    \/ parent_constructed
    \/ RootConstructed
    \/ ValueUnset
    \/ PtrWrite
    \/ MemForget
    \/ Eprintln
    \/ DropHandle
    \/ DropGuard
    \/ Return

Spec == Init /\ [][Next]_vars

----
(* The accumulator trampoline of add_signal_with_accumulator *)

(* The registered predicates F: Fn(&mut Value, &Value) -> bool.  Both store *)
(* the handler's return value in the accumulated value; "first_wins" stops *)
(* the emission, "until_true" stops it once a handler returned TRUE.       *)
CallPredicate(accumulator, accu, handler_return) ==
    IF accumulator = "first_wins"
    THEN [ret |-> FALSE, accu |-> handler_return]
    ELSE [ret |-> ~handler_return, accu |-> handler_return]

(* bool::to_glib: gboolean *)
BoolToGlib(b) == IF b THEN 1 ELSE 0

accumulator_trampoline_swapped(return_accu, handler_return, data) ==
    LET r == CallPredicate(data.closure, handler_return, return_accu)
    IN [ret |-> BoolToGlib(r.ret), accu |-> r.accu, calls |-> 1]

accumulator_trampoline(return_accu, handler_return, data) ==
    LET r == CallPredicate(data.closure, return_accu, handler_return)
    IN [ret |-> BoolToGlib(r.ret), accu |-> r.accu, calls |-> 1]

----
(* Signal emission by the foreign runtime: the connected handlers run in   *)
(* order, then the class closure of an action signal; after each handler   *)
(* the accumulator, if any, decides whether the emission goes on.          *)

HandlerCount(s, k) ==
    k + (IF signals[s].class_closure = NullPtr THEN 0 ELSE 1)

EmitStart(s, k) ==
    /\ Idle /\ ~InClassInit
    /\ s \in 1..Len(signals)
    /\ phase[signals[s].itype] = "Active"
    /\ em' = [NoEmission EXCEPT !.pc = "emitting", !.sig = s,
                                !.k = HandlerCount(s, k)]
    /\ UNCHANGED <<classVars, runVars>>

HandlerRun(ret) ==
    /\ em.pc = "emitting"
    /\ em.i < em.k
    /\ em' = [em EXCEPT !.pc = "handler_returned", !.i = @ + 1, !.hr = ret]
    /\ UNCHANGED <<classVars, runVars>>

AfterHandler(continue) ==
    IF continue = 0 \/ em.i = em.k THEN "done" ELSE "emitting"

Accumulate ==
    /\ em.pc = "handler_returned"
    /\ signals[em.sig].accumulator = AccumulatorTrampolineFn
    /\ LET r == accumulator_trampoline(em.accu, em.hr, signals[em.sig].accu_data)
       IN em' = [em EXCEPT !.pc = AfterHandler(r.ret),
                           !.accu = r.accu,
                           !.predCalls = @ + r.calls,
                           !.log = Append(@, [accu_in |-> em.accu, hr |-> em.hr,
                                              ret |-> r.ret])]
    /\ UNCHANGED <<classVars, runVars>>

NoAccumulate ==
    /\ em.pc = "handler_returned"
    /\ signals[em.sig].accumulator = NoAccumulator
    /\ em' = [em EXCEPT !.pc = AfterHandler(1), !.accu = em.hr]
    /\ UNCHANGED <<classVars, runVars>>

EmitDone ==
    /\ em.pc = "done"
    /\ em' = NoEmission
    /\ UNCHANGED <<classVars, runVars>>

SignalNext ==
    \/ TypeRegistration
    \/ SignalStep
    \/ \E s \in 1..MaxRegistrations : \E k \in 1..MaxHandlers : EmitStart(s, k)
    \/ \E ret \in BOOLEAN : HandlerRun(ret)
    \/ Accumulate
    \/ NoAccumulate
    \/ EmitDone

SpecSignal == Init /\ [][SignalNext]_vars

----
(* Properties of the trampolines (checked under Spec) *)

Frames == 1..Len(stack)
TrampolineFrames == { i \in Frames : IsTrampoline(stack[i]) }
PropertyFrames == { i \in Frames : stack[i].fn \in {"get_property", "set_property"} }
GuardedFrames == { i \in Frames : stack[i].guard }

(* C1: in each trampoline the floating-reference guard is taken before the *)
(* implementing object is recovered or a trait method is dispatched, is    *)
(* held during the whole dispatch, and has been released when the          *)
(* trampoline returns, on the Ok, the Err and every other exit path: the   *)
(* guards alive on the object are exactly those of the frames still        *)
(* inside their dispatch.                                                  *)
C1_GuardFirstHeldReleased ==
    /\ \A i \in TrampolineFrames :
          LET f == stack[i] IN
          /\ f.pc = "entry" => ~f.guard /\ f.imp = 0 /\ ~f.handle /\ f.idx = -1
          /\ f.pc \notin {"entry", "ret"} => f.guard
          /\ f.imp # 0 \/ f.handle => f.guard \/ f.pc = "ret"
          /\ f.pc = "ret" => ~f.guard /\ ~f.handle
    /\ obj.guards = Cardinality(GuardedFrames)
    /\ stack = <<>> => obj.guards = 0

C1_Witness ==
    /\ stack # <<>>
    /\ Top.fn = "get_property" /\ Top.res = "Err" /\ Top.pc = "ret"
    /\ obj.guards = 0 /\ proc = "running"

(* C2: an object whose constructed trampoline ran is released exactly once *)
(* when its only strong reference is dropped, and its weak reference is    *)
(* cleared by that release; it is never released before; the handle and    *)
(* the guard of a trampoline leave the reference count and the floating    *)
(* flag as they found them.                                                *)
C2_ReleasedExactlyOnce ==
    /\ obj.released <= 1
    /\ obj.state \in {"constructing", "new", "alive"} =>
          obj.released = 0 /\ obj.refcount >= 1 /\ obj.weak # "cleared"
    /\ obj.state = "dropped" =>
          obj.released = 1 /\ obj.refcount = 0 /\ obj.weak = "cleared"
    /\ \A i \in TrampolineFrames :
          /\ stack[i].pc \in {"handle_dropped", "ret"} =>
                obj.refcount = stack[i].rc0
          /\ stack[i].pc = "ret" => obj.floating = stack[i].fl0

C2_Witness ==
    /\ obj.state = "dropped" /\ obj.chained
    /\ klass[obj.type].constructed.fn = "constructed"
    /\ obj.released = 1 /\ obj.weak = "cleared"

(* C3: no panic inside a trampoline leaves it by unwinding into the        *)
(* foreign caller.                                                         *)
C3_NoUnwindIntoForeignCaller == proc # "unwound"

(* C4: when get_property returns Err the trampoline prints one diagnostic, *)
(* the output slot still holds the payload it held before the call, which  *)
(* has not been released, and the process keeps running.                   *)
C4_ErrLeavesSlotUntouched ==
    \A i \in Frames :
        stack[i].fn = "get_property" /\ stack[i].res = "Err" =>
            /\ slot = "old" /\ rel["old"] = 0 /\ rel["new"] = 0 /\ ~vLive
            /\ proc = "running"
            /\ diag = (IF stack[i].pc = "err" THEN 0 ELSE 1)

C4_Witness ==
    /\ stack # <<>>
    /\ Top.fn = "get_property" /\ Top.res = "Err" /\ Top.pc = "ret"
    /\ diag = 1 /\ slot = "old"

(* C5: every batch registration passes an array of N+1 entries whose entry *)
(* 0 is null and whose entry k+1 is the descriptor at position k of the    *)
(* N >= 1 installed properties; and for every id the foreign runtime       *)
(* passes, the get_property and set_property trampolines call the trait    *)
(* method with id - 1, which is the position of the descriptor in the      *)
(* installed sequence, lies in [0, N) and has not wrapped.                 *)
InstalledCount(c) ==
    LET js == { j \in 1..Len(installLog) : installLog[j].klass = c }
    IN IF js = {} THEN 0 ELSE installLog[CHOOSE j \in js : TRUE].n_pspecs - 1

C5_ArrayLayoutAndIndex ==
    /\ \A j \in 1..Len(installLog) :
          LET a == installLog[j].pspecs
              N == Len(a) - 1
          IN /\ N >= 1
             /\ installLog[j].n_pspecs = N + 1
             /\ a[1] = NullPspec
             /\ \A k \in 0..(N - 1) :
                    a[k + 2] = IntoParamSpec(Properties(N)[k + 1])
    /\ \A i \in PropertyFrames :
          LET f == stack[i]
              N == InstalledCount(f.owner)
          IN /\ f.id \in 1..N
             /\ f.pc \notin {"entry", "guarded", "recovered"} =>
                   /\ f.idx = f.id - 1
                   /\ f.idx >= 0 /\ f.idx < N
                   /\ f.pspec = IntoParamSpec(Properties(N)[f.idx + 1])

C5_Witness ==
    /\ stack # <<>>
    /\ Top.fn \in {"get_property", "set_property"}
    /\ Top.pc = "in_impl" /\ Top.id = 2 /\ Top.idx = 1

(* C6: a parent_constructed call made by the implementation of class T     *)
(* looks at the constructed slot of the parent class recorded in T's       *)
(* TypeData: a handler found there is invoked once, an empty slot makes    *)
(* the call a no-op.  The handler is one of a class strictly above T, so   *)
(* no trampoline is entered twice and the stack is never deeper than the   *)
(* parent chain.                                                           *)
C6_ChainUpToParentOnly ==
    /\ Len(stack) <= Depth + 1
    /\ \A i \in Frames :
          LET f == stack[i] IN
          f.fn = "constructed" /\ f.chained = 1 =>
              LET func == klass[typeData[f.T].parent_class].constructed IN
              /\ f.invoked = (IF func.fn = "null" THEN 0 ELSE 1)
              /\ i < Len(stack) =>
                    /\ stack[i + 1].fn = func.fn
                    /\ stack[i + 1].T = func.T
                    /\ stack[i + 1].T < f.T
    /\ \A i \in Frames :
          /\ stack[i].fn = "constructed" /\ stack[i].chained = 0 =>
                stack[i].invoked = 0 /\ i = Len(stack)
          /\ stack[i].fn = "root" => i = Len(stack)
    /\ \A i, j \in Frames :
          i # j => <<stack[i].fn, stack[i].T>> # <<stack[j].fn, stack[j].T>>

C6_Witness ==
    /\ Len(stack) = 3
    /\ stack[1].fn = "constructed" /\ stack[1].T = 2 /\ stack[1].invoked = 1
    /\ stack[2].fn = "constructed" /\ stack[2].T = 1 /\ stack[2].invoked = 1
    /\ stack[3].fn = "root"

(* C9: when get_property returns Ok(v) the trampoline first clears the     *)
(* slot, releasing its old payload once, then the slot holds v's payload;  *)
(* v's destructor does not run, so after the call the payload has exactly  *)
(* one owner, the slot, and has not been released.                         *)
Owners(p) == (IF slot = p THEN 1 ELSE 0) + (IF vLive /\ p = "new" THEN 1 ELSE 0)

C9_OkMovesValueIntoSlot ==
    \A i \in Frames :
        stack[i].fn = "get_property" /\ stack[i].res = "Ok" =>
            LET pc == stack[i].pc IN
            /\ rel["new"] = 0
            /\ pc = "ok" => slot = "old" /\ rel["old"] = 0 /\ vLive
            /\ pc = "unset" => slot = "empty" /\ rel["old"] = 1 /\ vLive
            /\ pc = "written" => slot = "new" /\ rel["old"] = 1
            /\ pc \in {"arm_done", "handle_dropped", "ret"} =>
                  /\ slot = "new" /\ rel["old"] = 1
                  /\ ~vLive /\ Owners("new") = 1

C9_Witness ==
    /\ stack # <<>>
    /\ Top.fn = "get_property" /\ Top.res = "Ok" /\ Top.pc = "ret"
    /\ slot = "new" /\ rel["old"] = 1 /\ rel["new"] = 0

----
(* Properties of class initialisation (checked under SpecClass) *)

PropsOf(c) == SelectSeq(installLog, LAMBDA e : e.klass = c)
SigsOf(c) == SelectSeq(signals, LAMBDA e : e.itype = c)
Overridden(c) == klass[c] = [set_property |-> Trampoline("set_property", c),
                             get_property |-> Trampoline("get_property", c),
                             constructed |-> Trampoline("constructed", c)]

(* The class lifetime: 0 Unregistered, 1 VtableOverridden,                 *)
(* 2 PropertiesInstalled, 3 SignalsRegistered, 4 Active                    *)
Stage(c) ==
    IF phase[c] = "Unregistered" THEN 0
    ELSE IF phase[c] = "Active" THEN 4
    ELSE IF SigsOf(c) # <<>> THEN 3
    ELSE IF PropsOf(c) # <<>> THEN 2
    ELSE IF Overridden(c) THEN 1
    ELSE 0

(* C7: install_properties with an empty sequence changes neither the class *)
(* struct nor the installed descriptors, and makes no call to the foreign  *)
(* batch registration.                                                     *)
EmptyInstallStep ==
    /\ lastOp' # lastOp
    /\ lastOp'.op = "install_properties"
    /\ lastOp'.n = 0

C7_EmptyInstallIsNoOp ==
    [][EmptyInstallStep =>
          /\ klass' = klass
          /\ installLog' = installLog
          /\ Len(installLog') = Len(installLog)
          /\ signals' = signals
          /\ phase' = phase
          /\ typeData' = typeData]_vars

C7_Witness ==
    /\ lastOp.op = "install_properties" /\ lastOp.n = 0
    /\ Len(installLog) = 1
    /\ installLog[1].klass = lastOp.klass
    /\ Overridden(lastOp.klass)

InstallOn(c) ==
    /\ lastOp' # lastOp
    /\ lastOp'.op = "install_properties"
    /\ lastOp'.klass = c
    /\ lastOp'.n > 0

----
(* Properties of signal emission (checked under SpecSignal) *)

(* C8: during the emission of a signal registered with an accumulator the  *)
(* trampoline calls the predicate once for every handler that returned,    *)
(* with the running accumulated value and that handler's return value,     *)
(* and gives the foreign runtime exactly the predicate's answer; so a      *)
(* handler runs only if every answer before it was TRUE, and an emission   *)
(* ends early only on a FALSE answer.                                      *)
RECURSIVE RunningAccu(_)
RunningAccu(j) ==
    IF j = 1 THEN NoEmission.accu
    ELSE CallPredicate(signals[em.sig].accu_data.closure,
                       RunningAccu(j - 1), em.log[j - 1].hr).accu

C8_AccumulatorDecides ==
    em.pc # "idle" /\ signals[em.sig].accumulator = AccumulatorTrampolineFn =>
        LET pred == signals[em.sig].accu_data.closure
            n == Len(em.log)
        IN /\ em.predCalls = n
           /\ n = (IF em.pc = "handler_returned" THEN em.i - 1 ELSE em.i)
           /\ \A j \in 1..n :
                 /\ em.log[j].accu_in = RunningAccu(j)
                 /\ em.log[j].ret =
                       BoolToGlib(CallPredicate(pred, em.log[j].accu_in,
                                                em.log[j].hr).ret)
                 /\ j < em.i =>
                       CallPredicate(pred, em.log[j].accu_in, em.log[j].hr).ret
           /\ em.pc = "done" /\ em.i < em.k =>
                 ~CallPredicate(pred, em.log[n].accu_in, em.log[n].hr).ret
           /\ em.pc = "emitting" /\ n > 0 =>
                 CallPredicate(pred, em.log[n].accu_in, em.log[n].hr).ret

C8_Witness ==
    /\ em.pc = "done" /\ em.k = 2 /\ em.i = 1
    /\ signals[em.sig].accumulator = AccumulatorTrampolineFn
    /\ em.log[1].ret = 0 /\ em.predCalls = 1

====
